---- MODULE Spec2Model ----
(***************************************************************************)
(* Session state machine of the weaverbird code-generation orchestrator:   *)
(* RefinementState, RefinementIterationState, CodeGenState,                *)
(* MockCodeGenState, CodeGenIterationState, the polling loop               *)
(* CodeGenBase.generateCode and createChanges.                             *)
(*                                                                         *)
(* One interact call is in flight at a time.  pc is the await at which the *)
(* running call is suspended; every action runs the code from one await to *)
(* the next.                                                               *)
(***************************************************************************)
EXTENDS Integers, Sequences, FiniteSets, TLC

VARIABLES
    cur,               \* the state object the driver holds as current
    dlg,               \* the state object RefinementIteration delegated to
    pc,                \* await at which the running interact is suspended
    action,            \* SessionStateAction of the running call
    sent,              \* last request handed to invoke
    genId,             \* const genId = response.generationId
    codegenResult,     \* last get-results response (local of generateCode)
    pollingIteration,  \* loop variable of generateCode
    polls,             \* get-results invocations issued by this generateCode
    delays,            \* 10 s delays started by this generateCode
    fired,             \* arrays fired on action.onAddToHistory in this call
    vfs,               \* providers registered in the virtual filesystem
    result,            \* how the running interact settled
    failedCall,        \* the invoke that rejected in this call, if any
    approachResponse,  \* last approach-generate / approach-iterate response
    mockOutcome,       \* what reading mock-data gave in this call
    lastApproach,      \* response.approach of the session's latest approach response
    env,               \* process.env.WEAVERBIRD_CONFIG
    cachedConfig,      \* let cachedConfig of the config module
    cacheWrites,       \* assignments made to cachedConfig
    calls              \* the getConfig calls of the process

\* what a turn of the session leaves alone, and what getConfig leaves alone
configVars == <<env, cachedConfig, cacheWrites, calls>>
sessionVars == <<cur, dlg, pc, action, sent, genId, codegenResult, pollingIteration,
                 polls, delays, fired, vfs, result, failedCall, approachResponse,
                 mockOutcome, lastApproach>>

vars == <<cur, dlg, pc, action, sent, genId, codegenResult, pollingIteration,
          polls, delays, fired, vfs, result, failedCall, approachResponse,
          mockOutcome, lastApproach, env, cachedConfig, cacheWrites, calls>>

(***************************************************************************)
(* Bounds                                                                  *)
(***************************************************************************)
\* longest file sequence in a snapshot, a get-results response or mock-data
MaxFiles == 2

(***************************************************************************)
(* Values                                                                  *)
(***************************************************************************)
Paths == {"a.txt", "b.txt"}
\* the workspace holds content "1", the remote and mock-data generate "2"
WorkspaceFile == [filePath : Paths, fileContent : {"1"}]
GeneratedFile == [filePath : Paths, fileContent : {"2"}]

SeqsUpTo(S, n) == UNION {[1..k -> S] : k \in 0..n}

NoRepeatedPath(files) ==
    \A i, j \in 1..Len(files) : files[i].filePath = files[j].filePath => i = j

\* a workspace snapshot names every file once
Snapshots(F, n) == {o \in SeqsUpTo(F, n) : NoRepeatedPath(o)}

Undefined == "undefined"
Task == "add a button"
ConversationIds == {"conv-1", "conv-2"}
GenerationIds == {"gen-1"}
ApproachTexts == {"plan A"}
UnknownStatuses == {"queued", Undefined}
Statuses == {"ready", "in-progress", "failed"} \cup UnknownStatuses

Nl == "\n"

(***************************************************************************)
(* Strings that are searched are sequences of characters                   *)
(***************************************************************************)
WRITE_CODE == <<"W", "R", "I", "T", "E", " ", "C", "O", "D", "E">>
MOCK_CODE == <<"M", "O", "C", "K", " ", "C", "O", "D", "E">>
LowerWriteCode == <<"w", "r", "i", "t", "e", " ", "c", "o", "d", "e">>
WriteCod == <<"W", "R", "I", "T", "E", " ", "C", "O", "D">>
WriteTwoSpaces == <<"W", "R", "I", "T", "E", " ", " ", "C", "O", "D", "E">>
Please == <<"p", "l", "e", "a", "s", "e", " ">>
Now == <<" ", "n", "o", "w">>
LetterE == <<"E">>
Space == <<" ">>

\* String.prototype.indexOf: first 0-based position of pat in s, -1 when none
RECURSIVE IndexFrom(_, _, _)
IndexFrom(s, pat, i) ==
    IF i + Len(pat) > Len(s) THEN -1
    ELSE IF SubSeq(s, i + 1, i + Len(pat)) = pat THEN i
    ELSE IndexFrom(s, pat, i + 1)

\* variant: only a match at position 0 counts
IndexOfAtStart(s, pat) ==
    IF Len(pat) <= Len(s) /\ SubSeq(s, 1, Len(pat)) = pat THEN 0 ELSE -1

IndexOf(s, pat) == IndexFrom(s, pat, 0)

\* action.msg is optional: undefined, or a string (the empty one is falsy)
NoMsg == [defined |-> FALSE, text |-> <<>>]
Msg(t) == [defined |-> TRUE, text |-> t]
Truthy(m) == m.defined /\ Len(m.text) > 0

\* the messages a turn is tried with, built from a prefix, a body and a suffix
MsgPrefixes == {<<>>, Please}
MsgBodies == {<<>>, WRITE_CODE, MOCK_CODE, LowerWriteCode, WriteCod,
              WriteTwoSpaces}
MsgSuffixes == {<<>>, Now, LetterE, Space \o MOCK_CODE, Space \o WRITE_CODE}
AllMsgs == {NoMsg} \cup
           {Msg(p \o b \o s) : p \in MsgPrefixes, b \in MsgBodies, s \in MsgSuffixes}
CoreMsgs == {NoMsg, Msg(WRITE_CODE), Msg(MOCK_CODE)}

(***************************************************************************)
(* Interactions                                                            *)
(***************************************************************************)
AiMessage(text) == [origin |-> "ai", type |-> "message", content |-> text]
AiCodegen(filePaths) == [origin |-> "ai", type |-> "codegen", content |-> filePaths]

Fallback ==
    "There has been a problem generating an approach. Please type 'CLEAR' and start over."
StartedText == "Code generation started" \o Nl
FailedText == "Code generation failed" \o Nl
UnknownText(status) == "Unknown status: " \o status \o Nl
TimeoutText == "Code generation did not finish withing the expected time :("
ChangesText == "Changes to files done. Please review:"
DoneText == "Changes to files done"

PathsOf(files) == [i \in 1..Len(files) |-> files[i].filePath]

(***************************************************************************)
(* State objects                                                           *)
(***************************************************************************)
StateIds == 0..2
NoState == [kind |-> "none", id |-> -1, approach |-> "", conversationId |-> Undefined,
            newFileContents |-> <<>>, cancelled |-> FALSE]

\* new XState(config, approach[, newFileContents]): a fresh object with a
\* fresh CancellationTokenSource
NewState(kind, used, approach, conversationId, files) ==
    [kind |-> kind,
     id |-> CHOOSE i \in StateIds : i \notin used /\ \A j \in StateIds \ used : i <= j,
     approach |-> approach, conversationId |-> conversationId,
     newFileContents |-> files, cancelled |-> FALSE]

\* the object whose method is running
Self == IF dlg.kind # "none" THEN dlg ELSE cur

(***************************************************************************)
(* Requests                                                                *)
(***************************************************************************)
NoRequest == [op |-> "none", task |-> "", originalFileContents |-> <<>>,
              approach |-> "", request |-> <<>>, conversationId |-> Undefined,
              generationId |-> Undefined]
NoAction == [task |-> "", files |-> <<>>, msg |-> NoMsg]
NoResponse == [codeGenerationStatus |-> "none", result |-> <<>>, hasResult |-> FALSE]
NoResult == [outcome |-> "none", nextState |-> NoState, interactions |-> <<>>]
Returned(next, interactions) ==
    [outcome |-> "returned", nextState |-> next, interactions |-> interactions]
Thrown == [outcome |-> "thrown", nextState |-> NoState, interactions |-> <<>>]
NoApproachResponse == [approach |-> "none", conversationId |-> "none"]
NoMockOutcome == [how |-> "none", files |-> <<>>]
NoApproach == "none"

(***************************************************************************)
(* createChanges                                                           *)
(***************************************************************************)
Unregistered == [registered |-> FALSE, contents |-> <<>>]
VirtualMemoryFile(contents) == [registered |-> TRUE, contents |-> contents]

\* new TextEncoder().encode(fileContent): the UTF-8 bytes of the text
encode(fileContent) ==
    CASE fileContent = "" -> <<>>
      [] fileContent = "1" -> <<49>>
      [] fileContent = "2" -> <<50>>
      [] fileContent = "3" -> <<51>>

\* fs.registerProvider(uri, new VirtualMemoryFile(contents)) for each file
RECURSIVE RegisterFrom(_, _, _)
RegisterFrom(fs, newFileContents, i) ==
    IF i > Len(newFileContents) THEN fs
    ELSE RegisterFrom([fs EXCEPT ![newFileContents[i].filePath] =
                                    VirtualMemoryFile(encode(newFileContents[i].fileContent))],
                      newFileContents, i + 1)

\* variant: the first file of a path stays registered
createChangesFsFirstWins(fs, newFileContents) ==
    RegisterFrom(fs, [i \in 1..Len(newFileContents) |->
                        newFileContents[Len(newFileContents) + 1 - i]], 1)

createChangesFs(fs, newFileContents) == RegisterFrom(fs, newFileContents, 1)

\* variant: the listing is left out
createChangesNoListing(newFileContents) == <<AiMessage(ChangesText)>>

createChanges(newFileContents) ==
    <<AiMessage(ChangesText), AiCodegen(PathsOf(newFileContents))>>

(***************************************************************************)
(* The snapshot CodeGenIterationState sends                                *)
(***************************************************************************)
SomePath(newFileContents, filePath) ==
    \E i \in 1..Len(newFileContents) : newFileContents[i].filePath = filePath

\* variants of the merge a slip would produce
MergeOriginalWins(newFileContents, files) ==
    SelectSeq(newFileContents, LAMBDA newFile : ~SomePath(files, newFile.filePath))
    \o files
MergeOriginalsFirst(newFileContents, files) ==
    SelectSeq(files, LAMBDA originalFile : ~SomePath(newFileContents, originalFile.filePath))
    \o newFileContents

Merge(newFileContents, files) ==
    newFileContents \o
    SelectSeq(files, LAMBDA originalFile : ~SomePath(newFileContents, originalFile.filePath))

pollCount == 60

\* variants of the loop condition a slip would produce
LoopConditionInclusive(iteration, state) ==
    iteration <= pollCount /\ ~state.cancelled
LoopConditionShort(iteration, state) ==
    iteration < pollCount - 1 /\ ~state.cancelled
LoopConditionDeaf(iteration, state) ==
    iteration < pollCount

LoopCondition(iteration, state) ==
    iteration < pollCount /\ ~state.cancelled

(***************************************************************************)
(* Payloads of the four remote operations                                  *)
(***************************************************************************)
GenerateApproachInput(a) ==
    [NoRequest EXCEPT !.op = "approach.generate", !.task = a.task,
                      !.originalFileContents = a.files]

IterateApproachInput(a, state) ==
    [NoRequest EXCEPT !.op = "approach.iterate", !.task = a.task,
                      !.request = IF a.msg.defined THEN a.msg.text ELSE <<>>,
                      !.approach = state.approach,
                      !.originalFileContents = a.files,
                      !.conversationId = state.conversationId]

\* variant: the request is built without the state's approach
GenerateCodeInputStale(a, state, fileContents) ==
    [NoRequest EXCEPT !.op = "codegen.generate", !.task = a.task,
                      !.originalFileContents = fileContents,
                      !.conversationId = state.conversationId]

GenerateCodeInput(a, state, fileContents) ==
    [NoRequest EXCEPT !.op = "codegen.generate", !.task = a.task,
                      !.originalFileContents = fileContents,
                      !.approach = state.approach,
                      !.conversationId = state.conversationId]

\* variant: the poll leaves the conversation id out
GetCodeGenerationResultInputAnonymous(state, generationId) ==
    [NoRequest EXCEPT !.op = "codegen.getResults", !.generationId = generationId]

GetCodeGenerationResultInput(state, generationId) ==
    [NoRequest EXCEPT !.op = "codegen.getResults", !.generationId = generationId,
                      !.conversationId = state.conversationId]

\* what the remote may answer to get-results
Responses(gens) ==
    {[codeGenerationStatus |-> "ready", hasResult |-> TRUE, result |-> g] : g \in gens}
    \cup {[codeGenerationStatus |-> "ready", hasResult |-> FALSE, result |-> <<>>]}
    \cup {[codeGenerationStatus |-> st, hasResult |-> FALSE, result |-> <<>>] :
              st \in Statuses \ {"ready"}}

(***************************************************************************)
(* Mock data: paths are sequences of segments                              *)
(***************************************************************************)
MockPaths == {<<"mock-data", "a.txt">>, <<"mock-data", "b.txt">>}
MockFile == [filePath : MockPaths, fileContent : {"2"}]

\* f.filePath.replace('mock-data/', ''): drops the first such segment
RECURSIVE ReplaceMockData(_)
ReplaceMockData(segs) ==
    IF Len(segs) <= 1 THEN segs
    ELSE IF Head(segs) = "mock-data" THEN Tail(segs)
    ELSE <<Head(segs)>> \o ReplaceMockData(Tail(segs))

RECURSIVE JoinPath(_)
JoinPath(segs) ==
    IF Len(segs) = 1 THEN segs[1] ELSE segs[1] \o "/" \o JoinPath(Tail(segs))

MockOutcomes(n) ==
    {[how |-> h, files |-> <<>>] : h \in {"statThrows", "statFalsy", "collectThrows"}}
    \cup {[how |-> "collected", files |-> f] : f \in Snapshots(MockFile, n)}

(***************************************************************************)
(* getConfig: the environment blob, Number.parseInt and the merge          *)
(***************************************************************************)
MaxCalls == 2
Calls == 1..MaxCalls

Null == "null"
appConfigFormatVersion == 2

gammaConfig ==
    [endpoint |-> "https://8id2rzphzj.execute-api.us-west-2.amazonaws.com/gamma",
     region |-> "us-west-2",
     lambdaArns |->
        [approach |->
            [generate |-> "arn:aws:lambda:us-west-2:789621683470:function:WeaverbirdService-Service-GenerateApproachLambda47-VIjB8vZYS3Iu:live",
             iterate |-> "arn:aws:lambda:us-west-2:789621683470:function:WeaverbirdService-Service-IterateApproachLambda18D-48KTZ8YLkK70:live"],
         codegen |->
            [generate |-> "arn:aws:lambda:us-west-2:789621683470:function:WeaverbirdService-Service-GenerateCodeLambdaCDE418-nXvafUVY7rmw:live",
             iterate |-> "arn:aws:lambda:us-west-2:789621683470:function:WeaverbirdService-Service-IterateCodeLambdaA908EBD-Asyx9VdIH3k2:live",
             getResults |-> "arn:aws:lambda:us-west-2:789621683470:function:WeaverbirdService-Service-GetCodeGenerationLambdaB-3W5Wr1TtVHcr:live"]]]
defaultConfig == gammaConfig

\* a JSON value of the version field with the text String(value) gives for it
VersionValue(type, text) == [type |-> type, text |-> text]
NoVersion == VersionValue("absent", <<"u", "n", "d", "e", "f", "i", "n", "e", "d">>)
NumberTwo == VersionValue("number", <<"2">>)
VersionValues ==
    {NoVersion, NumberTwo,
     VersionValue("null", <<"n", "u", "l", "l">>),
     VersionValue("boolean", <<"t", "r", "u", "e">>),
     VersionValue("number", <<"1">>),
     VersionValue("number", <<"3">>),
     VersionValue("number", <<"2", "0">>),
     VersionValue("number", <<"-", "2">>),
     VersionValue("number", <<"2", ".", "5">>),
     VersionValue("number", <<"1", ".", "9">>),
     VersionValue("string", <<"2">>),
     VersionValue("string", <<>>),
     VersionValue("string", <<" ", "2">>),
     VersionValue("string", <<"+", "2">>),
     VersionValue("string", <<"0", "2">>),
     VersionValue("string", <<"2", "a">>),
     VersionValue("string", <<"a", "2">>),
     VersionValue("string", <<"0", "x", "2">>),
     VersionValue("string", <<"0", "x", "1", "0">>),
     VersionValue("string", <<"v", "2">>)}
StringOf(v) == v.text

EndpointValues == {Undefined, Null, "https://x"}
RegionValues == {Undefined, "eu-west-1"}
ArnValues == {Undefined, "arn:local"}

NoGroup == [kind |-> "absent", generate |-> Undefined, iterate |-> Undefined,
            getResults |-> Undefined]
ApproachGroups ==
    {NoGroup} \cup
    {[kind |-> "object", generate |-> g, iterate |-> i, getResults |-> Undefined] :
        g \in ArnValues, i \in ArnValues}
CodegenGroups ==
    {NoGroup} \cup
    {[kind |-> "object", generate |-> g, iterate |-> i, getResults |-> r] :
        g \in ArnValues, i \in ArnValues, r \in ArnValues}
NoLambdaArns == [kind |-> "absent", approach |-> NoGroup, codegen |-> NoGroup]
LambdaArnsValues ==
    {[NoLambdaArns EXCEPT !.kind = k] : k \in {"absent", "null", "scalar"}} \cup
    {[kind |-> "object", approach |-> a, codegen |-> c] :
        a \in ApproachGroups, c \in CodegenGroups}

\* what JSON.parse gives for the variable's text, or that it throws
NoObject == [kind |-> "object", version |-> NoVersion, endpoint |-> Undefined,
             region |-> Undefined, lambdaArns |-> NoLambdaArns]
Unset == [NoObject EXCEPT !.kind = "unset"]
EnvValues ==
    {[NoObject EXCEPT !.kind = k] : k \in {"unset", "malformed", "null", "scalar"}} \cup
    {[kind |-> "object", version |-> v, endpoint |-> e, region |-> r, lambdaArns |-> l] :
        v \in VersionValues, e \in EndpointValues, r \in RegionValues,
        l \in LambdaArnsValues}

\* JSON.parse(config ?? `{ "version": 2}`)
JSONParse(config) ==
    IF config.kind = "malformed" THEN [throws |-> TRUE, value |-> NoObject]
    ELSE IF config.kind = "unset"
         THEN [throws |-> FALSE, value |-> [NoObject EXCEPT !.version = NumberTwo]]
    ELSE [throws |-> FALSE, value |-> config]

NaN == [nan |-> TRUE, value |-> 0]
Number(n) == [nan |-> FALSE, value |-> n]
isNaN(x) == x.nan

DigitChars == <<"0", "1", "2", "3", "4", "5", "6", "7", "8", "9",
                "a", "b", "c", "d", "e", "f">>
\* the value of a digit in the radix, -1 when it is none
DigitValue(c, radix) ==
    IF \E i \in 1..radix : DigitChars[i] = c
    THEN (CHOOSE i \in 1..radix : DigitChars[i] = c) - 1
    ELSE -1

RECURSIVE TrimStart(_)
TrimStart(s) == IF Len(s) > 0 /\ Head(s) = " " THEN TrimStart(Tail(s)) ELSE s

\* the value of the longest prefix of digits, NaN when there is none
RECURSIVE ParseDigits(_, _, _, _)
ParseDigits(s, radix, seen, acc) ==
    IF Len(s) > 0 /\ DigitValue(Head(s), radix) # -1
    THEN ParseDigits(Tail(s), radix, TRUE, acc * radix + DigitValue(Head(s), radix))
    ELSE IF seen THEN Number(acc) ELSE NaN

HasHexPrefix(s) == Len(s) >= 2 /\ s[1] = "0" /\ s[2] \in {"x", "X"}

\* Number.parseInt(string) without a radix
parseInt(string) ==
    LET trimmed == TrimStart(string)
        signed == Len(trimmed) > 0 /\ Head(trimmed) \in {"+", "-"}
        sign == IF signed /\ Head(trimmed) = "-" THEN -1 ELSE 1
        body == IF signed THEN Tail(trimmed) ELSE trimmed
        magnitude == IF HasHexPrefix(body)
                     THEN ParseDigits(Tail(Tail(body)), 16, FALSE, 0)
                     ELSE ParseDigits(body, 10, FALSE, 0)
    IN IF isNaN(magnitude) THEN NaN ELSE Number(sign * magnitude.value)

\* a ?? b
Coalesce(a, b) == IF a \in {Undefined, Null} THEN b ELSE a

\* parsedConfig.lambdaArns?.<group>?.<field>
ArnOf(parsedConfig, group, field) ==
    IF parsedConfig.lambdaArns.kind # "object" THEN Undefined
    ELSE IF parsedConfig.lambdaArns[group].kind # "object" THEN Undefined
    ELSE parsedConfig.lambdaArns[group][field]

MergedConfig(parsedConfig) ==
    [endpoint |-> Coalesce(parsedConfig.endpoint, defaultConfig.endpoint),
     region |-> Coalesce(parsedConfig.region, defaultConfig.region),
     lambdaArns |->
        [approach |->
            [generate |-> Coalesce(ArnOf(parsedConfig, "approach", "generate"),
                                   defaultConfig.lambdaArns.approach.generate),
             iterate |-> Coalesce(ArnOf(parsedConfig, "approach", "iterate"),
                                  defaultConfig.lambdaArns.approach.iterate)],
         codegen |->
            [generate |-> Coalesce(ArnOf(parsedConfig, "codegen", "generate"),
                                   defaultConfig.lambdaArns.codegen.generate),
             iterate |-> Coalesce(ArnOf(parsedConfig, "codegen", "iterate"),
                                  defaultConfig.lambdaArns.codegen.iterate),
             getResults |-> Coalesce(ArnOf(parsedConfig, "codegen", "getResults"),
                                     defaultConfig.lambdaArns.codegen.getResults)]]]

\* reading .version of null throws, of a scalar gives undefined
VersionOf(parsedConfig) ==
    IF parsedConfig.kind = "object" THEN parsedConfig.version ELSE NoVersion

\* the inner async function: try { ... } catch (e) { return defaultConfig }
ResolveConfig(config) ==
    LET parsed == JSONParse(config) IN
    IF parsed.throws \/ parsed.value.kind = "null" THEN defaultConfig
    ELSE LET localConfigVersion == parseInt(StringOf(VersionOf(parsed.value))) IN
         IF isNaN(localConfigVersion) \/ localConfigVersion.value # appConfigFormatVersion
         THEN defaultConfig
         ELSE MergedConfig(parsed.value)

\* let cachedConfig = undefined; by names the call whose resolution made the value
NoConfig == [defined |-> FALSE, value |-> defaultConfig, by |-> 0]
Resolved(value, c) == [defined |-> TRUE, value |-> value, by |-> c]
NoCall == [pc |-> "idle", config |-> NoConfig]

ConfigIdle ==
    /\ cachedConfig = NoConfig
    /\ cacheWrites = 0
    /\ calls = [c \in Calls |-> NoCall]

ConfigUnused ==
    /\ env = Unset
    /\ ConfigIdle

(***************************************************************************)
(* Init                                                                    *)
(***************************************************************************)
InitialApproach == ""

Idle ==
    /\ dlg = NoState
    /\ pc = "idle"
    /\ action = NoAction
    /\ sent = NoRequest
    /\ genId = Undefined
    /\ codegenResult = NoResponse
    /\ pollingIteration = 0
    /\ polls = 0
    /\ delays = 0
    /\ fired = <<>>
    /\ result = NoResult
    /\ failedCall = "none"
    /\ approachResponse = NoApproachResponse
    /\ mockOutcome = NoMockOutcome

\* new RefinementState(config, approach), nothing registered yet
Init ==
    /\ cur = NewState("Refinement", {}, InitialApproach, Undefined, <<>>)
    /\ vfs = [p \in Paths |-> Unregistered]
    /\ lastApproach = NoApproach
    /\ Idle
    /\ ConfigUnused

(***************************************************************************)
(* RefinementState.interact                                                *)
(***************************************************************************)
RefinementInteractWith(msgs, origs) ==
    /\ pc = "idle"
    /\ cur.kind = "Refinement"
    /\ \E m \in msgs, o \in origs :
        LET a == [task |-> Task, files |-> o, msg |-> m] IN
        /\ action' = a
        /\ sent' = GenerateApproachInput(a)
    /\ pc' = "approachGenerate"
    /\ UNCHANGED <<cur, dlg, genId, codegenResult, pollingIteration, polls, delays,
                   fired, vfs, result, failedCall>>
    /\ UNCHANGED <<approachResponse, mockOutcome, lastApproach>>
    /\ UNCHANGED configVars

\* variant: an absent approach is passed on as it is
ApproachOrFallbackRaw(approach) == approach

\* response.approach ?? "There has been a problem ..."
ApproachOrFallback(approach) == IF approach = Undefined THEN Fallback ELSE approach

\* variant: the assignment also forgets the conversation
AssignApproachClearingId(state, approach) ==
    [state EXCEPT !.approach = ApproachOrFallback(approach), !.conversationId = Undefined]

\* this.approach = response.approach ?? ...
AssignApproach(state, approach) ==
    [state EXCEPT !.approach = ApproachOrFallback(approach)]

ApproachGenerateReturns ==
    /\ pc = "approachGenerate"
    /\ \E approach \in ApproachTexts \cup {Undefined}, conversationId \in ConversationIds :
        /\ approachResponse' = [approach |-> approach, conversationId |-> conversationId]
        /\ lastApproach' = approach
        /\ cur' = AssignApproach(cur, approach)
        /\ result' = Returned(NewState("RefinementIteration", {cur.id}, cur'.approach,
                                       conversationId, <<>>),
                              <<AiMessage(cur'.approach \o Nl)>>)
    /\ pc' = "settled"
    /\ UNCHANGED <<dlg, action, sent, genId, codegenResult, pollingIteration, polls,
                   delays, fired, vfs, failedCall>>
    /\ UNCHANGED <<mockOutcome>>
    /\ UNCHANGED configVars

(***************************************************************************)
(* CodeGenState.interact up to its first await                             *)
(***************************************************************************)
CodeGenInteract(state, a) ==
    /\ sent' = GenerateCodeInput(a, state, a.files)
    /\ pc' = "codegenGenerate"

MockCodeGenInteract(state, a) ==
    /\ sent' = sent
    /\ pc' = "mockData"

(***************************************************************************)
(* RefinementIterationState.interact                                       *)
(***************************************************************************)
HasSentinel(m, sentinel) == Truthy(m) /\ IndexOf(m.text, sentinel) # -1

RefinementIterationInteractWith(msgs, origs) ==
    /\ pc = "idle"
    /\ cur.kind = "RefinementIteration"
    /\ \E m \in msgs, o \in origs :
        LET a == [task |-> Task, files |-> o, msg |-> m] IN
        /\ action' = a
        /\ IF HasSentinel(m, WRITE_CODE)
           THEN /\ dlg' = NewState("CodeGen", {cur.id}, cur.approach,
                                   cur.conversationId, <<>>)
                /\ CodeGenInteract(dlg', a)
           ELSE IF HasSentinel(m, MOCK_CODE)
           THEN /\ dlg' = NewState("MockCodeGen", {cur.id}, cur.approach,
                                   cur.conversationId, <<>>)
                /\ MockCodeGenInteract(dlg', a)
           ELSE /\ dlg' = dlg
                /\ sent' = IterateApproachInput(a, cur)
                /\ pc' = "approachIterate"
    /\ UNCHANGED <<cur, genId, codegenResult, pollingIteration, polls, delays,
                   fired, vfs, result, failedCall>>
    /\ UNCHANGED <<approachResponse, mockOutcome, lastApproach>>
    /\ UNCHANGED configVars

ApproachIterateReturns ==
    /\ pc = "approachIterate"
    /\ \E approach \in ApproachTexts \cup {Undefined} :
        /\ approachResponse' = [approach |-> approach, conversationId |-> Undefined]
        /\ lastApproach' = approach
        /\ cur' = AssignApproach(cur, approach)
        /\ result' = Returned(NewState("RefinementIteration", {cur.id}, cur'.approach,
                                       cur.conversationId, <<>>),
                              <<AiMessage(cur'.approach \o Nl)>>)
    /\ pc' = "settled"
    /\ UNCHANGED <<dlg, action, sent, genId, codegenResult, pollingIteration, polls,
                   delays, fired, vfs, failedCall>>
    /\ UNCHANGED <<mockOutcome>>
    /\ UNCHANGED configVars

\* invoke rejects where no handler encloses the await: interact rejects
Rejects(at) ==
    /\ pc = at
    /\ failedCall' = sent.op
    /\ result' = Thrown
    /\ pc' = "settled"
    /\ UNCHANGED <<cur, dlg, action, sent, genId, codegenResult, pollingIteration,
                   polls, delays, fired, vfs>>
    /\ UNCHANGED <<approachResponse, mockOutcome, lastApproach>>
    /\ UNCHANGED configVars

ApproachGenerateRejects == Rejects("approachGenerate")
ApproachIterateRejects == Rejects("approachIterate")
CodeGenerateRejects == Rejects("codegenGenerate")

(***************************************************************************)
(* MockCodeGenState.interact after the dispatch                            *)
(***************************************************************************)
\* variant: a failed read leaves a file behind
MockFilesOfPartial(outcome) ==
    IF outcome.how = "collectThrows"
    THEN <<[filePath |-> "a.txt", fileContent |-> "2"]>>
    ELSE IF outcome.how = "collected"
    THEN [i \in 1..Len(outcome.files) |->
             [filePath |-> JoinPath(ReplaceMockData(outcome.files[i].filePath)),
              fileContent |-> outcome.files[i].fileContent]]
    ELSE <<>>

\* newFileContents after the try block: [] unless the files were collected
MockFilesOf(outcome) ==
    IF outcome.how = "collected"
    THEN [i \in 1..Len(outcome.files) |->
             [filePath |-> JoinPath(ReplaceMockData(outcome.files[i].filePath)),
              fileContent |-> outcome.files[i].fileContent]]
    ELSE <<>>

MockCodeGenReturns ==
    /\ pc = "mockData"
    /\ \E outcome \in MockOutcomes(MaxFiles) :
        LET newFileContents == MockFilesOf(outcome) IN
        /\ mockOutcome' = outcome
        /\ vfs' = createChangesFs(vfs, newFileContents)
        /\ result' = Returned(NewState("CodeGenIteration", {cur.id, dlg.id},
                                       dlg.approach, dlg.conversationId, newFileContents),
                              createChanges(newFileContents))
    /\ pc' = "settled"
    /\ UNCHANGED <<cur, dlg, action, sent, genId, codegenResult, pollingIteration,
                   polls, delays, fired, failedCall>>
    /\ UNCHANGED <<approachResponse, lastApproach>>
    /\ UNCHANGED configVars

(***************************************************************************)
(* CodeGenIterationState.interact up to its first await                    *)
(***************************************************************************)
CodeGenIterationInteractWith(msgs, origs) ==
    /\ pc = "idle"
    /\ cur.kind = "CodeGenIteration"
    /\ \E m \in msgs, o \in origs :
        LET a == [task |-> Task, files |-> o, msg |-> m]
            fileContents == Merge(cur.newFileContents, a.files)
        IN /\ action' = a
           /\ sent' = GenerateCodeInput(a, cur, fileContents)
    /\ pc' = "codegenGenerate"
    /\ UNCHANGED <<cur, dlg, genId, codegenResult, pollingIteration, polls, delays,
                   fired, vfs, result, failedCall>>
    /\ UNCHANGED <<approachResponse, mockOutcome, lastApproach>>
    /\ UNCHANGED configVars

(***************************************************************************)
(* CodeGenBase.generateCode and the code of interact that follows it       *)
(***************************************************************************)
\* variant: CodeGenIterationState returns a new instance
GenerateCodeSettlesFresh(newFiles, firedNow) ==
    /\ fired' = firedNow
    /\ pc' = "settled"
    /\ cur' = cur
    /\ result' = Returned(NewState("CodeGenIteration", {cur.id, dlg.id},
                                   Self.approach, Self.conversationId, newFiles),
                          IF Self.kind = "CodeGen" THEN <<>> ELSE <<AiMessage(DoneText)>>)

\* variant: CodeGenState adds a message of its own to what it returns
GenerateCodeSettlesHandOff(newFiles, firedNow) ==
    /\ fired' = firedNow
    /\ pc' = "settled"
    /\ IF Self.kind = "CodeGen"
       THEN /\ cur' = cur
            /\ result' = Returned(NewState("CodeGenIteration", {cur.id, dlg.id},
                                           Self.approach, Self.conversationId, newFiles),
                                  <<AiMessage(DoneText)>>)
       ELSE /\ cur' = [cur EXCEPT !.newFileContents = newFiles]
            /\ result' = Returned(cur', <<AiMessage(DoneText)>>)

\* variant: CodeGenIterationState keeps its files when the cycle gave none
GenerateCodeSettlesKeeping(newFiles, firedNow) ==
    /\ fired' = firedNow
    /\ pc' = "settled"
    /\ IF Self.kind = "CodeGen"
       THEN /\ cur' = cur
            /\ result' = Returned(NewState("CodeGenIteration", {cur.id, dlg.id},
                                           Self.approach, Self.conversationId, newFiles),
                                  <<>>)
       ELSE /\ cur' = IF newFiles = <<>> THEN cur
                      ELSE [cur EXCEPT !.newFileContents = newFiles]
            /\ result' = Returned(cur', <<AiMessage(DoneText)>>)

\* generateCode has produced newFiles (or its rejection was caught and
\* replaced by []): the rest of interact runs without another await
GenerateCodeSettles(newFiles, firedNow) ==
    /\ fired' = firedNow
    /\ pc' = "settled"
    /\ IF Self.kind = "CodeGen"
       THEN /\ cur' = cur
            /\ result' = Returned(NewState("CodeGenIteration", {cur.id, dlg.id},
                                           Self.approach, Self.conversationId, newFiles),
                                  <<>>)
       ELSE /\ cur' = [cur EXCEPT !.newFileContents = newFiles]
            /\ result' = Returned(cur', <<AiMessage(DoneText)>>)

\* variant: a loop left before the ceiling says nothing
LoopStepSilent(iteration, generationId, firedNow) ==
    /\ pollingIteration' = iteration
    /\ IF LoopCondition(iteration, Self)
       THEN /\ sent' = GetCodeGenerationResultInput(Self, generationId)
            /\ polls' = polls + 1
            /\ fired' = firedNow
            /\ pc' = "getResults"
            /\ UNCHANGED <<cur, result>>
       ELSE /\ GenerateCodeSettles(<<>>, IF iteration < pollCount THEN firedNow
                                         ELSE Append(firedNow, <<AiMessage(TimeoutText)>>))
            /\ UNCHANGED <<sent, polls>>

\* variant: a cancelled loop waits again instead of leaving
LoopStepSpinning(iteration, generationId, firedNow) ==
    IF LoopCondition(iteration, Self)
    THEN /\ pollingIteration' = iteration
         /\ sent' = GetCodeGenerationResultInput(Self, generationId)
         /\ polls' = polls + 1
         /\ fired' = firedNow
         /\ pc' = "getResults"
         /\ UNCHANGED <<cur, result>>
    ELSE IF iteration < pollCount
    THEN /\ pc' = "delay"
         /\ fired' = firedNow
         /\ UNCHANGED <<pollingIteration, sent, polls, cur, result>>
    ELSE /\ pollingIteration' = iteration
         /\ GenerateCodeSettles(<<>>, Append(firedNow, <<AiMessage(TimeoutText)>>))
         /\ UNCHANGED <<sent, polls>>

\* the loop header, then either the next invoke or the code after the loop
LoopStep(iteration, generationId, firedNow) ==
    /\ pollingIteration' = iteration
    /\ IF LoopCondition(iteration, Self)
       THEN /\ sent' = GetCodeGenerationResultInput(Self, generationId)
            /\ polls' = polls + 1
            /\ fired' = firedNow
            /\ pc' = "getResults"
            /\ UNCHANGED <<cur, result>>
       ELSE /\ GenerateCodeSettles(<<>>, Append(firedNow, <<AiMessage(TimeoutText)>>))
            /\ UNCHANGED <<sent, polls>>

\* variant: nothing is fired before generateCode begins
CodeGenerateReturnsSilent ==
    /\ pc = "codegenGenerate"
    /\ \E g \in GenerationIds :
        /\ genId' = g
        /\ LoopStep(0, g, fired)
    /\ UNCHANGED <<dlg, action, codegenResult, delays, vfs, failedCall>>
    /\ UNCHANGED <<approachResponse, mockOutcome, lastApproach>>
    /\ UNCHANGED configVars

\* the code-generation call answers: 'started' is fired, generateCode begins
CodeGenerateReturns ==
    /\ pc = "codegenGenerate"
    /\ \E g \in GenerationIds :
        /\ genId' = g
        /\ LoopStep(0, g, Append(fired, <<AiMessage(StartedText)>>))
    /\ UNCHANGED <<dlg, action, codegenResult, delays, vfs, failedCall>>
    /\ UNCHANGED <<approachResponse, mockOutcome, lastApproach>>
    /\ UNCHANGED configVars

\* variant: a reported failure is polled again
StatusCaseRetryFailed(status) ==
    IF status \in {"ready", "in-progress"} THEN status
    ELSE IF status = "failed" THEN "in-progress" ELSE "default"

\* switch (codegenResult.codeGenerationStatus)
StatusCase(status) ==
    IF status \in {"ready", "in-progress", "failed"} THEN status ELSE "default"

GetResultsReturnsWith(gens) ==
    /\ pc = "getResults"
    /\ \E response \in Responses(gens) :
        /\ codegenResult' = response
        /\ CASE StatusCase(response.codeGenerationStatus) = "ready" ->
                  LET newFiles == IF response.hasResult THEN response.result ELSE <<>> IN
                  /\ vfs' = createChangesFs(vfs, newFiles)
                  /\ GenerateCodeSettles(newFiles, Append(fired, createChanges(newFiles)))
                  /\ UNCHANGED delays
             [] StatusCase(response.codeGenerationStatus) = "in-progress" ->
                  /\ delays' = delays + 1
                  /\ pc' = "delay"
                  /\ UNCHANGED <<cur, fired, vfs, result>>
             [] StatusCase(response.codeGenerationStatus) = "failed" ->
                  /\ GenerateCodeSettles(<<>>, Append(fired, <<AiMessage(FailedText)>>))
                  /\ UNCHANGED <<vfs, delays>>
             [] OTHER ->
                  /\ GenerateCodeSettles(<<>>,
                         Append(fired,
                                <<AiMessage(UnknownText(response.codeGenerationStatus))>>))
                  /\ UNCHANGED <<vfs, delays>>
    /\ UNCHANGED <<dlg, action, sent, genId, pollingIteration, polls, failedCall>>
    /\ UNCHANGED <<approachResponse, mockOutcome, lastApproach>>
    /\ UNCHANGED configVars

\* variant: the rejection is not caught
GetResultsRejectsUncaught == Rejects("getResults")

\* invoke rejects inside generateCode: caught by .catch(_ => []) in interact
GetResultsRejects ==
    /\ pc = "getResults"
    /\ failedCall' = sent.op
    /\ GenerateCodeSettles(<<>>, fired)
    /\ UNCHANGED <<dlg, action, sent, genId, codegenResult, pollingIteration, polls,
                   delays, vfs>>
    /\ UNCHANGED <<approachResponse, mockOutcome, lastApproach>>
    /\ UNCHANGED configVars

\* the 10 s timer fires: ++pollingIteration and the loop header
DelayElapses ==
    /\ pc = "delay"
    /\ LoopStep(pollingIteration + 1, genId, fired)
    /\ UNCHANGED <<dlg, action, genId, codegenResult, delays, vfs, failedCall>>
    /\ UNCHANGED <<approachResponse, mockOutcome, lastApproach>>
    /\ UNCHANGED configVars

(***************************************************************************)
(* The driver                                                              *)
(***************************************************************************)
\* the returned next state replaces the current one; a rejected call leaves it
DriverSettles ==
    /\ pc = "settled"
    /\ cur' = IF result.outcome = "returned" /\ result.nextState.id # cur.id
              THEN result.nextState ELSE cur
    /\ dlg' = NoState
    /\ pc' = "idle"
    /\ action' = NoAction
    /\ sent' = NoRequest
    /\ genId' = Undefined
    /\ codegenResult' = NoResponse
    /\ pollingIteration' = 0
    /\ polls' = 0
    /\ delays' = 0
    /\ fired' = <<>>
    /\ result' = NoResult
    /\ failedCall' = "none"
    /\ approachResponse' = NoApproachResponse
    /\ mockOutcome' = NoMockOutcome
    /\ UNCHANGED <<vfs, lastApproach>>
    /\ UNCHANGED configVars

\* the driver signals the token source of the state it holds
DriverCancels ==
    /\ ~cur.cancelled
    /\ cur' = [cur EXCEPT !.cancelled = TRUE]
    /\ UNCHANGED <<dlg, pc, action, sent, genId, codegenResult, pollingIteration,
                   polls, delays, fired, vfs, result, failedCall>>
    /\ UNCHANGED <<approachResponse, mockOutcome, lastApproach>>
    /\ UNCHANGED configVars

(***************************************************************************)
(* Spec: a whole session                                                   *)
(***************************************************************************)
RefinementInteract == RefinementInteractWith(CoreMsgs, Snapshots(WorkspaceFile, MaxFiles))
RefinementIterationInteract ==
    RefinementIterationInteractWith(CoreMsgs, Snapshots(WorkspaceFile, MaxFiles))
CodeGenIterationInteract == CodeGenIterationInteractWith(CoreMsgs, Snapshots(WorkspaceFile, MaxFiles))
GetResultsReturns == GetResultsReturnsWith(SeqsUpTo(GeneratedFile, MaxFiles))

Next ==
    \/ RefinementInteract
    \/ ApproachGenerateReturns
    \/ RefinementIterationInteract
    \/ ApproachIterateReturns
    \/ ApproachGenerateRejects
    \/ ApproachIterateRejects
    \/ CodeGenerateRejects
    \/ MockCodeGenReturns
    \/ CodeGenIterationInteract
    \/ CodeGenerateReturns
    \/ GetResultsReturns
    \/ GetResultsRejects
    \/ DelayElapses
    \/ DriverSettles
    \/ DriverCancels

Spec == Init /\ [][Next]_vars

(***************************************************************************)
(* SpecConfig: calls of getConfig in one process, over every blob          *)
(***************************************************************************)
InitConfig ==
    /\ cur = NewState("Refinement", {}, InitialApproach, Undefined, <<>>)
    /\ vfs = [p \in Paths |-> Unregistered]
    /\ lastApproach = NoApproach
    /\ Idle
    /\ env \in EnvValues
    /\ ConfigIdle

\* a call runs up to its await: cachedConfig ?? (... await (async () => {...})())
GetConfigStarts ==
    \E c \in Calls :
        /\ calls[c].pc = "idle"
        /\ \A earlier \in 1..(c - 1) : calls[earlier].pc # "idle"
        /\ calls' = [calls EXCEPT ![c] =
                        IF cachedConfig.defined
                        THEN [pc |-> "done", config |-> cachedConfig]
                        ELSE [pc |-> "awaiting",
                              config |-> Resolved(ResolveConfig(env), c)]]
        /\ UNCHANGED <<env, cachedConfig, cacheWrites>>
        /\ UNCHANGED sessionVars

\* the await resumes: cachedConfig = <the awaited value>, which the call returns
GetConfigResumes ==
    \E c \in Calls :
        /\ calls[c].pc = "awaiting"
        /\ cachedConfig' = calls[c].config
        /\ cacheWrites' = cacheWrites + 1
        /\ calls' = [calls EXCEPT ![c].pc = "done"]
        /\ UNCHANGED env
        /\ UNCHANGED sessionVars

NextConfig ==
    \/ GetConfigStarts
    \/ GetConfigResumes

SpecConfig == InitConfig /\ [][NextConfig]_vars

(***************************************************************************)
(* SpecChanges: sessions over empty workspaces whose generated files       *)
(* differ in content, each poll followed up to its first answer            *)
(***************************************************************************)
ChangedFile == [filePath : Paths, fileContent : {"2", "3"}]
NoFiles == {<<>>}

RefinementTurn == RefinementInteractWith({NoMsg}, NoFiles)
RefinementIterationTurn == RefinementIterationInteractWith(CoreMsgs, NoFiles)
CodeGenIterationTurn == CodeGenIterationInteractWith({NoMsg}, NoFiles)
ChangedFilesReturn == GetResultsReturnsWith(SeqsUpTo(ChangedFile, MaxFiles))

NextChanges ==
    \/ RefinementTurn
    \/ ApproachGenerateReturns
    \/ RefinementIterationTurn
    \/ ApproachIterateReturns
    \/ ApproachGenerateRejects
    \/ ApproachIterateRejects
    \/ CodeGenerateRejects
    \/ MockCodeGenReturns
    \/ CodeGenIterationTurn
    \/ CodeGenerateReturns
    \/ ChangedFilesReturn
    \/ GetResultsRejects
    \/ DriverSettles
    \/ DriverCancels

SpecChanges == Init /\ [][NextChanges]_vars

(***************************************************************************)
(* SpecLive: sessions over empty workspaces and empty results, in which    *)
(* every invoke and every file-system read is answered or fails and every  *)
(* timer fires                                                             *)
(***************************************************************************)
EmptyFilesReturn == GetResultsReturnsWith(NoFiles)

NextLive ==
    \/ RefinementTurn
    \/ ApproachGenerateReturns
    \/ RefinementIterationTurn
    \/ ApproachIterateReturns
    \/ ApproachGenerateRejects
    \/ ApproachIterateRejects
    \/ CodeGenerateRejects
    \/ MockCodeGenReturns
    \/ CodeGenIterationTurn
    \/ CodeGenerateReturns
    \/ EmptyFilesReturn
    \/ GetResultsRejects
    \/ DelayElapses
    \/ DriverSettles
    \/ DriverCancels

\* the promise a call awaits settles
ApproachGenerateSettles == ApproachGenerateReturns \/ ApproachGenerateRejects
ApproachIterateSettles == ApproachIterateReturns \/ ApproachIterateRejects
CodeGenerateSettles == CodeGenerateReturns \/ CodeGenerateRejects
GetResultsSettles == EmptyFilesReturn \/ GetResultsRejects

SpecLive ==
    /\ Init
    /\ [][NextLive]_vars
    /\ WF_vars(ApproachGenerateSettles)
    /\ WF_vars(ApproachIterateSettles)
    /\ WF_vars(CodeGenerateSettles)
    /\ WF_vars(GetResultsSettles)
    /\ WF_vars(MockCodeGenReturns)
    /\ WF_vars(DelayElapses)

(***************************************************************************)
(* SpecSentinel: RefinementIteration turns, over every message             *)
(***************************************************************************)
InitSentinel ==
    /\ \E conversationId \in ConversationIds, approach \in ApproachTexts \cup {Undefined} :
        /\ cur = NewState("RefinementIteration", {0}, ApproachOrFallback(approach),
                          conversationId, <<>>)
        /\ lastApproach = approach
    /\ vfs = [p \in Paths |-> Unregistered]
    /\ Idle
    /\ ConfigUnused

SentinelTurn == RefinementIterationInteractWith(AllMsgs, Snapshots(WorkspaceFile, MaxFiles))

NextSentinel ==
    \/ SentinelTurn
    \/ ApproachIterateReturns
    \/ ApproachIterateRejects
    \/ DriverSettles

SpecSentinel == InitSentinel /\ [][NextSentinel]_vars

(***************************************************************************)
(* Vocabulary of the properties                                            *)
(***************************************************************************)
RECURSIVE Flatten(_)
Flatten(arrays) ==
    IF arrays = <<>> THEN <<>> ELSE Head(arrays) \o Flatten(Tail(arrays))

\* every interaction fired on onAddToHistory in this call, in order
FiredInteractions == Flatten(fired)

IsMessage(x, text) == x.type = "message" /\ x.content = text
IsCodegen(x, filePaths) == x.type = "codegen" /\ x.content = filePaths

CountMessages(xs, text) == Cardinality({i \in 1..Len(xs) : IsMessage(xs[i], text)})

\* the confirmation message directly followed by the listing of these paths
HasChangeSummary(xs, filePaths) ==
    \E i \in 1..(Len(xs) - 1) :
        IsMessage(xs[i], ChangesText) /\ IsCodegen(xs[i + 1], filePaths)

Polling == Self.kind \in {"CodeGen", "CodeGenIteration"}
Status == codegenResult.codeGenerationStatus
ReadyFiles == IF codegenResult.hasResult THEN codegenResult.result ELSE <<>>

\* the file set the poll cycle of the settled call yielded
CycleFiles ==
    IF Self.kind = "CodeGen" THEN result.nextState.newFileContents
    ELSE cur.newFileContents

NextIsCodeGenIteration ==
    result.outcome = "returned" /\ result.nextState.kind = "CodeGenIteration"

(***************************************************************************)
(* Properties                                                              *)
(***************************************************************************)
\* C1: in one run of generateCode at most 60 get-results invocations are
\* issued, whatever statuses the remote returns.
C1_PollCeiling == polls <= 60

\* 60 invocations have been issued
C1_Witness == pc = "getResults" /\ polls = 60

\* C2 (as claimed): every interact call settles by returning a result with a
\* valid next state; no transport failure makes it reject.
C2_NeverRejects ==
    pc = "settled" =>
        /\ result.outcome = "returned"
        /\ result.nextState.kind \in {"RefinementIteration", "CodeGenIteration"}

\* C3 (as claimed): when the initiating code-generation call of
\* CodeGen.interact fails, interact returns a CodeGenIteration holding an
\* empty file set.
C3_InitiatingFailureCaught ==
    (pc = "settled" /\ dlg.kind = "CodeGen" /\ failedCall = "codegen.generate") =>
        /\ NextIsCodeGenIteration
        /\ result.nextState.newFileContents = <<>>

\* C4: a call whose token is not signalled and whose every poll answered
\* in-progress has polled exactly 60 times, fired exactly one timeout message
\* (the last thing fired) and yields a CodeGenIteration with no files.
C4_TimeoutAfterCeiling ==
    (/\ pc = "settled" /\ Polling /\ result.outcome = "returned"
     /\ ~Self.cancelled /\ delays = polls) =>
        /\ polls = 60
        /\ CountMessages(FiredInteractions, TimeoutText) = 1
        /\ fired[Len(fired)] = <<AiMessage(TimeoutText)>>
        /\ NextIsCodeGenIteration
        /\ result.nextState.newFileContents = <<>>

\* CodeGen.interact has run into the ceiling
C4_Witness ==
    /\ pc = "settled" /\ dlg.kind = "CodeGen" /\ result.outcome = "returned"
    /\ ~dlg.cancelled /\ delays = polls /\ polls = 60

\* C5 (as claimed): after a ready poll with files F the interactions that
\* CodeGen.interact returns hold the confirmation followed by the listing of
\* F's paths, and the next state is a CodeGenIteration holding F.
C5_SummaryInReturnedInteractions ==
    (pc = "settled" /\ dlg.kind = "CodeGen" /\ Status = "ready") =>
        /\ HasChangeSummary(result.interactions, PathsOf(ReadyFiles))
        /\ NextIsCodeGenIteration
        /\ result.nextState.newFileContents = ReadyFiles

\* C5 (amended): after a ready poll with files F the confirmation followed by
\* the listing of F's paths, in order, has been fired on the action's
\* onAddToHistory emitter, the interactions CodeGen.interact returns are
\* empty, and the next state is a CodeGenIteration holding exactly F.
C5_SummaryFired ==
    (pc = "settled" /\ dlg.kind = "CodeGen" /\ Status = "ready") =>
        /\ HasChangeSummary(FiredInteractions, PathsOf(ReadyFiles))
        /\ fired[Len(fired)] =
               <<AiMessage(ChangesText), AiCodegen(PathsOf(ReadyFiles))>>
        /\ result.interactions = <<>>
        /\ NextIsCodeGenIteration
        /\ result.nextState.newFileContents = ReadyFiles

\* CodeGen.interact settled on a ready poll that carried a file
C5_Witness ==
    /\ pc = "settled" /\ dlg.kind = "CodeGen" /\ Status = "ready"
    /\ Len(ReadyFiles) > 0

\* C6: once a poll has answered failed or an unrecognized status the call has
\* settled: no get-results and no delay follows it, the one diagnostic for
\* that status is all that was fired after 'started', and the cycle yields
\* no files.
C6_FailedOrUnknownStops ==
    Status \notin {"none", "ready", "in-progress"} =>
        /\ pc = "settled"
        /\ delays = polls - 1
        /\ fired = <<<<AiMessage(StartedText)>>,
                     <<AiMessage(IF Status = "failed" THEN FailedText
                                 ELSE UnknownText(Status))>>>>
        /\ result.outcome = "returned"
        /\ CycleFiles = <<>>

\* an unrecognized status arrived after earlier in-progress answers
C6_Witness ==
    /\ pc = "settled" /\ Status \in UnknownStatuses /\ polls > 1

\* C7: while the token of the polling state is signalled, no step of the
\* call issues another get-results invocation, be the call awaiting the
\* initiating call, an in-flight poll or a delay.
C7_NoPollAfterCancel ==
    [][(Polling /\ Self.cancelled /\ pc \in {"codegenGenerate", "getResults", "delay"})
          => (polls' = polls /\ pc' # "getResults")]_vars

\* a loop cut short by the token: it left before the ceiling, after a delay
C7_Witness ==
    /\ pc = "settled" /\ cur.kind = "CodeGenIteration" /\ cur.cancelled
    /\ polls > 0 /\ polls < 60 /\ delays = polls
    /\ result.outcome = "returned"

\* the turn of CodeGenIteration.interact whose request has just been sent
MergeSent == pc = "codegenGenerate" /\ cur.kind = "CodeGenIteration"
Merged == sent.originalFileContents
Held == cur.newFileContents
Originals == action.files

PathSet(files) == {files[i].filePath : i \in 1..Len(files)}
WithPath(files, p) == SelectSeq(files, LAMBDA f : f.filePath = p)

Kept == {i \in 1..Len(Originals) :
            \A j \in 1..Len(Held) : Held[j].filePath # Originals[i].filePath}

\* C9: the snapshot sent is the held generated files in their order, then
\* exactly the original files whose path matches no held file, in their
\* order.
C9_GeneratedThenOriginals ==
    MergeSent =>
        /\ sent.op = "codegen.generate"
        /\ Len(Merged) = Len(Held) + Cardinality(Kept)
        /\ \A j \in 1..Len(Held) : Merged[j] = Held[j]
        /\ \A i \in Kept :
               Merged[Len(Held) + Cardinality({k \in Kept : k <= i})] = Originals[i]

\* held files, one original superseded and one original kept
C9_Witness ==
    /\ MergeSent /\ Len(Held) > 0 /\ Cardinality(Kept) > 0
    /\ Cardinality(Kept) < Len(Originals)

\* pat occurs in the text of message m
Occurs(m, pat) ==
    /\ m.defined
    /\ \E i \in 1..Len(m.text) :
           /\ i + Len(pat) - 1 <= Len(m.text)
           /\ \A k \in 1..Len(pat) : m.text[i + k - 1] = pat[k]

PleaseWriteCodeNow == Msg(Please \o WRITE_CODE \o Now)

\* C10: a RefinementIteration turn runs CodeGen.interact exactly when the
\* message contains 'WRITE CODE' in that case ('please WRITE CODE now' does,
\* 'write code' does not); with neither sentinel, or no message, it sends
\* approach-iterate, and when that answers the next state is a new
\* RefinementIteration.
C10_SentinelDispatch ==
    [][/\ (pc = "idle" /\ cur.kind = "RefinementIteration" /\ pc' # "idle") =>
            /\ (dlg'.kind = "CodeGen") <=> Occurs(action'.msg, WRITE_CODE)
            /\ dlg'.kind = "CodeGen" =>
                   (pc' = "codegenGenerate" /\ sent'.op = "codegen.generate")
            /\ action'.msg = PleaseWriteCodeNow => dlg'.kind = "CodeGen"
            /\ action'.msg = Msg(LowerWriteCode) => dlg'.kind # "CodeGen"
            /\ (~Occurs(action'.msg, WRITE_CODE) /\ ~Occurs(action'.msg, MOCK_CODE)) =>
                   /\ dlg' = NoState
                   /\ pc' = "approachIterate"
                   /\ sent'.op = "approach.iterate"
       /\ (pc = "approachIterate" /\ result'.outcome = "returned") =>
            /\ result'.nextState.kind = "RefinementIteration"
            /\ result'.nextState.id # cur.id
      ]_vars

\* 'please WRITE CODE now' has started CodeGen.interact
C10_Witness ==
    /\ pc = "codegenGenerate" /\ dlg.kind = "CodeGen"
    /\ action.msg = PleaseWriteCodeNow

(***************************************************************************)
(* What a settled call shows                                               *)
(***************************************************************************)
Settled(kind) == pc = "settled" /\ Self.kind = kind
ReturnedFrom(kind) == Settled(kind) /\ result.outcome = "returned"
ResponseText ==
    IF approachResponse.approach = Undefined THEN Fallback ELSE approachResponse.approach

\* C11: whenever RefinementState.interact has returned, the next state is a
\* RefinementIteration whose approach is the approach text of the
\* approach-generation response, and the returned interactions are exactly
\* one AI message, that text followed by a newline; for a response without
\* an approach the text is the fixed fallback string in both places.
C11_RefinementReturnsApproach ==
    ReturnedFrom("Refinement") =>
        /\ result.nextState.kind = "RefinementIteration"
        /\ result.nextState.approach = ResponseText
        /\ result.interactions = <<AiMessage(ResponseText \o Nl)>>

\* RefinementState.interact has returned on a response without an approach
C11_Witness ==
    /\ ReturnedFrom("Refinement")
    /\ approachResponse.approach = Undefined
    /\ result.nextState.approach = Fallback

RemoteOps == {"approach.iterate", "codegen.generate", "codegen.getResults"}

\* C12: the state that follows RefinementState holds the conversation id of
\* the approach-generation response; from then on the current state's
\* conversation id never changes, and every approach-iterate, code-generate
\* and get-results request that is sent carries it.
C12_ConversationIdStable ==
    [][/\ (cur.conversationId = Undefined /\ cur'.conversationId # Undefined)
            => cur'.conversationId = approachResponse.conversationId
       /\ cur.conversationId # Undefined => cur'.conversationId = cur.conversationId
       /\ sent'.op \in RemoteOps
            => /\ cur'.conversationId # Undefined
               /\ sent'.conversationId = cur'.conversationId]_vars

\* a poll of a later CodeGenIteration turn carries the id assigned at the start
C12_Witness ==
    /\ pc = "getResults" /\ cur.kind = "CodeGenIteration" /\ polls = 2
    /\ Len(cur.newFileContents) > 0
    /\ sent.conversationId = "conv-2"

\* the fields of a state object other than its token
Fields(state) ==
    [approach |-> state.approach, conversationId |-> state.conversationId,
     newFileContents |-> state.newFileContents]
SameObject(before, after) == before.kind # "none" /\ after.id = before.id
NotIterating(state) == state.kind # "CodeGenIteration"

\* C13: whenever CodeGenIterationState.interact returns, the next state is
\* the very instance it ran on; whenever another state's interact returns,
\* the next state is neither that state nor the state that delegated to it;
\* so a current CodeGenIteration stays the same instance at every step.
C13_OnlyCodeGenIterationReturnsItself ==
    [][/\ ReturnedFrom("CodeGenIteration")' =>
              (result'.nextState.id = cur'.id /\ Fields(result'.nextState) = Fields(cur'))
       /\ (result'.outcome = "returned" /\ Self'.kind # "CodeGenIteration") =>
              result'.nextState.id \notin {cur'.id, dlg'.id}
       /\ cur.kind = "CodeGenIteration" =>
              (cur'.kind = "CodeGenIteration" /\ cur'.id = cur.id)]_vars

\* a second turn of the same CodeGenIteration has returned it again
C13_Witness ==
    /\ ReturnedFrom("CodeGenIteration")
    /\ result.nextState.id = cur.id
    /\ Len(cur.newFileContents) = 2
    /\ Len(action.files) = 2

\* C14 as stated: while the current state or the state it delegated to is
\* not a CodeGenIteration, no step changes that object's approach,
\* conversation id or held files.
C14_NoSelfMutation ==
    [][/\ (NotIterating(cur) /\ SameObject(cur, cur')) => Fields(cur') = Fields(cur)
       /\ (NotIterating(dlg) /\ SameObject(dlg, dlg') /\ dlg'.kind = dlg.kind)
              => Fields(dlg') = Fields(dlg)]_vars

\* C14: CodeGen and MockCodeGen change none of their fields; Refinement and
\* RefinementIteration never change their configuration or files, and
\* change their own approach only when interact returns, to the very text
\* they hand to the next state.
C14_OnlyApproachOverwritten ==
    [][/\ (NotIterating(cur) /\ SameObject(cur, cur')) =>
              /\ cur'.conversationId = cur.conversationId
              /\ cur'.newFileContents = cur.newFileContents
              /\ cur'.approach # cur.approach =>
                     /\ cur.kind \in {"Refinement", "RefinementIteration"}
                     /\ dlg.kind = "none"
                     /\ result'.outcome = "returned"
                     /\ result'.nextState.approach = cur'.approach
       /\ (NotIterating(dlg) /\ SameObject(dlg, dlg') /\ dlg'.kind = dlg.kind)
              => Fields(dlg') = Fields(dlg)]_vars

\* a RefinementIteration has overwritten its own approach and handed it on
C14_Witness ==
    /\ ReturnedFrom("RefinementIteration")
    /\ cur.approach = Fallback
    /\ result.nextState.approach = Fallback
    /\ sent.approach = "plan A"

DirectoryFailures == {"statThrows", "statFalsy", "collectThrows"}

\* C15: MockCodeGenState.interact never throws, and when the mock-data
\* directory is missing or reading it fails the next state is a
\* CodeGenIteration holding no files.
C15_MockDataFailureTolerated ==
    Settled("MockCodeGen") =>
        /\ result.outcome = "returned"
        /\ mockOutcome.how \in DirectoryFailures =>
              /\ result.nextState.kind = "CodeGenIteration"
              /\ result.nextState.newFileContents = <<>>

\* reading the existing directory failed and the call has returned
C15_Witness ==
    /\ Settled("MockCodeGen")
    /\ mockOutcome.how = "collectThrows"
    /\ result.outcome = "returned"

\* C19: whenever a call settles after a get-results invocation failed, in
\* CodeGenState and in CodeGenIterationState alike, it has returned, and the
\* next state is a CodeGenIteration holding no files.
C19_PollFailureCaught ==
    (pc = "settled" /\ failedCall = "codegen.getResults") =>
        /\ Self.kind \in {"CodeGen", "CodeGenIteration"}
        /\ result.outcome = "returned"
        /\ result.nextState.kind = "CodeGenIteration"
        /\ result.nextState.newFileContents = <<>>

\* the third poll of a CodeGenIteration that held files has failed
C19_Witness ==
    /\ pc = "settled" /\ failedCall = "codegen.getResults"
    /\ cur.kind = "CodeGenIteration" /\ polls = 3
    /\ result.nextState.newFileContents = <<>>

\* C20 as stated: once the token of the current state is signalled while
\* a call on it waits between two polls, no further poll starts, whether
\* the current state polls itself or delegated to a CodeGen.
C20_CancelStopsDelegatedPolling ==
    [][(cur.cancelled /\ pc = "delay") => (polls' = polls /\ pc' # "getResults")]_vars

(***************************************************************************)
(* getConfig                                                               *)
(***************************************************************************)
\* the texts of the JSON numbers and numeric strings whose value is 2
TwoTexts == {<<"2">>, <<" ", "2">>, <<"+", "2">>, <<"0", "2">>, <<"0", "x", "2">>}
IsVersionTwo(config) ==
    /\ config.kind = "object"
    /\ config.version.type \in {"number", "string"}
    /\ config.version.text \in TwoTexts
OnlyEndpoint(config) ==
    config = [NoObject EXCEPT !.version = NumberTwo, !.endpoint = "https://x"]
Done(c) == calls[c].pc = "done"

\* C16 as stated: every finished call of getConfig has a value; for a
\* version-2 blob with only an endpoint it is the default map with that
\* endpoint; for a blob that cannot be parsed or whose version is not 2 it
\* is the default map.
C16_ValidatedOrDefault ==
    \A c \in Calls : Done(c) =>
        /\ calls[c].config.defined
        /\ OnlyEndpoint(env) =>
              calls[c].config.value = [defaultConfig EXCEPT !.endpoint = "https://x"]
        /\ (env.kind # "unset" /\ ~IsVersionTwo(env)) =>
              calls[c].config.value = defaultConfig

\* C17 as stated: the cached configuration is written at most once, once
\* as soon as a call has finished, and all finished calls return the value
\* of one resolution.
C17_WrittenOnce ==
    /\ cacheWrites <= 1
    /\ (\E c \in Calls : Done(c)) => cacheWrites = 1
    /\ \A c, d \in Calls : (Done(c) /\ Done(d)) => calls[c].config.by = calls[d].config.by

(***************************************************************************)
(* createChanges                                                           *)
(***************************************************************************)
\* the steps in which createChanges runs, its input and what it returned
ChangesFromReady == pc = "getResults" /\ codegenResult'.codeGenerationStatus = "ready"
ChangesFromMock == pc = "mockData" /\ pc' = "settled"
ChangesInput ==
    IF ChangesFromMock THEN result'.nextState.newFileContents
    ELSE IF codegenResult'.hasResult THEN codegenResult'.result ELSE <<>>
ChangesReturned == IF ChangesFromMock THEN result'.interactions ELSE fired'[Len(fired')]
LastWith(files, filePath) ==
    files[CHOOSE i \in 1..Len(files) :
              /\ files[i].filePath = filePath
              /\ \A j \in (i + 1)..Len(files) : files[j].filePath # filePath]

\* C18: in every step in which createChanges runs, afterwards each path of
\* its input is registered with the encoded content of the last input file
\* of that path, and it returns exactly the confirmation message followed
\* by the listing of the input's paths in input order.
C18_ChangesRegisteredAndListed ==
    [][(ChangesFromReady \/ ChangesFromMock) =>
          /\ \A p \in PathSet(ChangesInput) :
                vfs'[p] = VirtualMemoryFile(encode(LastWith(ChangesInput, p).fileContent))
          /\ Len(ChangesReturned) = 2
          /\ ChangesReturned[1] = AiMessage(ChangesText)
          /\ ChangesReturned[2] = AiCodegen(PathsOf(ChangesInput))]_vars

\* after an earlier turn registered b.txt, a result brought a.txt twice,
\* with "2" and then with "3"
C18_Witness ==
    /\ pc = "settled" /\ cur.kind = "CodeGenIteration"
    /\ vfs["b.txt"].registered
    /\ ReadyFiles = <<[filePath |-> "a.txt", fileContent |-> "2"],
                      [filePath |-> "a.txt", fileContent |-> "3"]>>
    /\ vfs["a.txt"] = VirtualMemoryFile(<<51>>)

(***************************************************************************)
(* Hand-off of the approach, order of what a call fires, phases            *)
(***************************************************************************)
LatestApproachText == IF lastApproach = Undefined THEN Fallback ELSE lastApproach

\* C21: every code-generation request that is sent, by a CodeGen or by a
\* CodeGenIteration in any of its turns, carries as approach the approach
\* of the session's latest approach-generation or approach-iteration
\* response, the fallback string if that response had none.
C21_LatestApproachSent ==
    sent.op = "codegen.generate" =>
        /\ lastApproach # NoApproach
        /\ sent.approach = LatestApproachText

\* a later CodeGenIteration turn sends the fallback of an iteration that
\* answered without an approach
C21_Witness ==
    /\ pc = "codegenGenerate" /\ cur.kind = "CodeGenIteration"
    /\ Len(cur.newFileContents) > 0
    /\ lastApproach = Undefined
    /\ sent.approach = Fallback

GenerationAnswered == Polling /\ pc \in {"getResults", "delay", "settled"}
                              /\ failedCall # "codegen.generate"

\* C22: in a call of CodeGen or CodeGenIteration nothing is fired and no
\* poll is issued until the code-generation call has answered; from then
\* on, so already at the first poll, 'Code generation started' is the first
\* thing fired and it is fired exactly once.
C22_StartedFirstAndOnce ==
    /\ (Polling /\ ~GenerationAnswered) => (fired = <<>> /\ polls = 0)
    /\ GenerationAnswered =>
          /\ Len(fired) >= 1
          /\ fired[1] = <<AiMessage(StartedText)>>
          /\ CountMessages(FiredInteractions, StartedText) = 1

\* a call has fired the start message, then, after two polls, the changes
C22_Witness ==
    /\ pc = "settled" /\ Polling /\ polls = 2
    /\ Len(fired) = 2
    /\ fired[1] = <<AiMessage(StartedText)>>
    /\ HasChangeSummary(FiredInteractions, <<"a.txt", "b.txt">>)

Phase(state) ==
    CASE state.kind = "Refinement" -> 0
      [] state.kind = "RefinementIteration" -> 1
      [] state.kind = "CodeGenIteration" -> 2
      [] OTHER -> -1

\* C23: the current state is always a Refinement, a RefinementIteration or
\* a CodeGenIteration, every step keeps its phase or moves it to the next
\* one, and a turn delegated to CodeGen or MockCodeGen returns what that
\* state's interact returns: a CodeGenIteration and, from CodeGen, no
\* interactions, from MockCodeGen, the two of createChanges and no more.
C23_OneDirectional ==
    [][/\ Phase(cur') \in {Phase(cur), Phase(cur) + 1}
       /\ Phase(cur) >= 0
       /\ ReturnedFrom("CodeGen")' =>
              /\ result'.nextState.kind = "CodeGenIteration"
              /\ result'.interactions = <<>>
       /\ ReturnedFrom("MockCodeGen")' =>
              /\ result'.nextState.kind = "CodeGenIteration"
              /\ result'.interactions =
                     <<AiMessage(ChangesText),
                       AiCodegen(PathsOf(result'.nextState.newFileContents))>>
              /\ fired' = <<>>
       /\ (pc = "settled" /\ pc' = "idle" /\ dlg.kind # "none"
           /\ result.outcome = "returned")
              => cur' = result.nextState]_vars

\* the WRITE CODE turn of a RefinementIteration has returned a
\* CodeGenIteration holding generated files
C23_Witness ==
    /\ ReturnedFrom("CodeGen") /\ cur.kind = "RefinementIteration"
    /\ action.msg = Msg(WRITE_CODE)
    /\ Len(result.nextState.newFileContents) = 2

LeftByHeader == pc = "settled" /\ Polling /\ result.outcome = "returned" /\ delays = polls

\* C24: whenever a polling loop is left at its header before 60 polls were
\* made, the token was signalled, the 'did not finish' message was fired
\* exactly once and last, and the cycle gave no files.
C24_CancelledLikeTimeout ==
    (LeftByHeader /\ polls < 60) =>
        /\ Self.cancelled
        /\ CountMessages(FiredInteractions, TimeoutText) = 1
        /\ fired[Len(fired)] = <<AiMessage(TimeoutText)>>
        /\ CycleFiles = <<>>

\* a CodeGenIteration that held files was cancelled during its second delay
C24_Witness ==
    /\ LeftByHeader /\ polls = 2 /\ cur.kind = "CodeGenIteration" /\ cur.cancelled
    /\ vfs["a.txt"].registered
    /\ cur.newFileContents = <<>>

EndedWithFiles == failedCall = "none" /\ Status = "ready"

\* C25: whenever a CodeGenIteration turn returns, the state holds the files
\* of that turn's ready answer and nothing if the cycle ended otherwise;
\* and a turn that starts with nothing held sends the original files alone.
C25_HeldSetReplaced ==
    [][/\ ReturnedFrom("CodeGenIteration")' =>
              cur'.newFileContents = IF EndedWithFiles' THEN ReadyFiles' ELSE <<>>
       /\ (pc = "idle" /\ pc' = "codegenGenerate" /\ cur.kind = "CodeGenIteration"
           /\ cur.newFileContents = <<>>)
              => sent'.originalFileContents = action'.files]_vars

\* after generated files were registered, a turn starts with nothing held
\* and sends the two original files
C25_Witness ==
    /\ MergeSent /\ Held = <<>>
    /\ vfs["a.txt"].registered
    /\ Len(Originals) = 2 /\ Merged = Originals

(***************************************************************************)
(* Termination of a call                                                   *)
(***************************************************************************)
Running == pc \notin {"idle", "settled"}

\* C26: every interact call that is running eventually settles, returned
\* or thrown, whatever the remote answers and whether or not the token is
\* signalled, as long as awaited promises settle and timers fire.
C26_EveryCallCompletes == Running ~> (pc = "settled")

\* a call has settled after all 60 polls answered in-progress
C26_Witness ==
    /\ pc = "settled" /\ polls = 60 /\ delays = 60
    /\ result.outcome = "returned"

====
